---------------------------- MODULE Spec2Model ----------------------------
(***************************************************************************)
(* Model of src/sequence_variations.py: eight pure detectors that compare  *)
(* a pattern with a sequence.  Every detector is an operator computed the  *)
(* way the Python code computes it (its loops are recursive operators that *)
(* carry the loop variables), and one action per detector applies it to    *)
(* the inputs drawn by Init.                                               *)
(*                                                                         *)
(* Encoding of Python values:                                              *)
(*   - a scalar item x          is  [scalar |-> x]                         *)
(*   - a tuple item (v, a)      is  [tuple |-> <<v, a>>]                   *)
(*   - the aux value None       is  the string "None"                      *)
(*   - an Optional[int] that is None is <<>>, the int k is <<k>>           *)
(*   - list indices are 0-based as in the source (At, Slice)               *)
(* The value/primary/aux extractors are the defaults of the signatures.    *)
(***************************************************************************)
EXTENDS Integers, Sequences, FiniteSets

VARIABLES pattern, sequence, require_same_aux, max_changes, min_len,
          max_extra, op, result

vars == <<pattern, sequence, require_same_aux, max_changes, min_len,
          max_extra, op, result>>

(***************************************************************************)
(* Bounds of the model.                                                    *)
(***************************************************************************)
MaxPatLen == 2
MaxSeqLen == 4

\* Items of the exact/transform detectors: three scalars and one
\* (value, aux) tuple that shares its primary value with a scalar.
Items == {[scalar |-> 0], [scalar |-> 1], [scalar |-> 2], [tuple |-> <<1, "a">>]}

SeqsUpTo(S, n) == UNION {[1..k -> S] : k \in 0..n}

(***************************************************************************)
(* Python list primitives.                                                 *)
(***************************************************************************)
Min(a, b) == IF a <= b THEN a ELSE b
Max(a, b) == IF a >= b THEN a ELSE b

\* s[i]
At(s, i) == s[i + 1]

\* s[a:b] for 0 <= a, clamped at len(s) as Python slicing is
Slice(s, a, b) == SubSeq(s, a + 1, Min(b, Len(s)))

\* range(n) as a set of indices
Range0(n) == 0..(n - 1)

\* the aux value None
None == "None"

\* Optional[...] values: None is Nothing, a value v is Some(v)
Nothing == <<>>
Some(v) == <<v>>
IsNone(x) == x = Nothing
IntOf(x) == x[1]
ListOf(x) == x[1]

IsTuple(x) == "tuple" \in DOMAIN x

_default_primary(x) ==
    IF IsTuple(x) /\ Len(x.tuple) >= 1 THEN x.tuple[1] ELSE x.scalar

_default_aux(x) ==
    IF IsTuple(x) /\ Len(x.tuple) >= 2 THEN x.tuple[2] ELSE None

(***************************************************************************)
(* repetition                                                              *)
(***************************************************************************)
\* a plausible slip: the windows are compared by primary value only
repetition_window_primary_only(pat, seq, i) ==
    /\ Len(Slice(seq, i, i + Len(pat))) = Len(pat)
    /\ \A j \in Range0(Len(pat)) :
          _default_primary(At(seq, i + j)) = _default_primary(At(pat, j))

\* list(sequence[i : i + L]) == list(pattern)
repetition_window(pat, seq, i) ==
    Slice(seq, i, i + Len(pat)) = pat

RECURSIVE repetition_loop(_, _, _, _)
repetition_loop(pat, seq, i, matches) ==
    IF i >= Len(seq) - Len(pat) + 1 THEN matches
    ELSE repetition_loop(pat, seq, i + 1,
             IF repetition_window(pat, seq, i)
             THEN Append(matches, i) ELSE matches)

repetition(pat, seq) ==
    IF Len(pat) = 0 THEN <<>> ELSE repetition_loop(pat, seq, 0, <<>>)

(***************************************************************************)
(* transposition                                                           *)
(***************************************************************************)
\* all(aux_fn(segment[j]) == aux_fn(pattern[j]) for j in range(L))
aux_all_equal(segment, pat) ==
    \A j \in Range0(Len(pat)) :
        _default_aux(At(segment, j)) = _default_aux(At(pat, j))

\* a plausible slip: the "skip trivial exact repetition" test is left out
transposition_segment_keeps_zero(pat, segment, i, rsa) ==
    IF rsa /\ ~aux_all_equal(segment, pat) THEN <<>>
    ELSE LET base_offset ==
                 _default_primary(At(segment, 0)) - _default_primary(At(pat, 0))
         IN  IF \A j \in Range0(Len(pat)) :
                    _default_primary(At(segment, j))
                        - _default_primary(At(pat, j)) = base_offset
             THEN <<[position |-> i, offset |-> base_offset]>>
             ELSE <<>>

\* body of the loop over i: the records this window appends to results
transposition_segment(pat, segment, i, rsa) ==
    IF rsa /\ ~aux_all_equal(segment, pat) THEN <<>>
    ELSE LET base_offset ==
                 _default_primary(At(segment, 0)) - _default_primary(At(pat, 0))
         IN  IF base_offset = 0 THEN <<>>
             ELSE IF \A j \in Range0(Len(pat)) :
                        _default_primary(At(segment, j))
                            - _default_primary(At(pat, j)) = base_offset
                  THEN <<[position |-> i, offset |-> base_offset]>>
                  ELSE <<>>

RECURSIVE transposition_loop(_, _, _, _, _)
transposition_loop(pat, seq, rsa, i, results) ==
    IF i >= Len(seq) - Len(pat) + 1 THEN results
    ELSE transposition_loop(pat, seq, rsa, i + 1,
             results \o transposition_segment(
                            pat, Slice(seq, i, i + Len(pat)), i, rsa))

transposition(pat, seq, rsa) ==
    IF Len(pat) = 0 THEN <<>> ELSE transposition_loop(pat, seq, rsa, 0, <<>>)

(***************************************************************************)
(* retrograde                                                              *)
(***************************************************************************)
\* a plausible slip: the window is compared with the pattern in pattern order
retrograde_segment_forward(pat, segment, rsa) ==
    \A j \in Range0(Len(pat)) :
        LET p == At(pat, j)
            s == At(segment, j)
        IN  /\ _default_primary(s) = _default_primary(p)
            /\ (rsa => _default_aux(s) = _default_aux(p))

\* the ok flag after the loop over j
retrograde_segment(pat, segment, rsa) ==
    \A j \in Range0(Len(pat)) :
        LET p == At(pat, Len(pat) - 1 - j)
            s == At(segment, j)
        IN  /\ _default_primary(s) = _default_primary(p)
            /\ ~(rsa /\ _default_aux(s) /= _default_aux(p))

RECURSIVE retrograde_loop(_, _, _, _, _)
retrograde_loop(pat, seq, rsa, i, matches) ==
    IF i >= Len(seq) - Len(pat) + 1 THEN matches
    ELSE retrograde_loop(pat, seq, rsa, i + 1,
             IF retrograde_segment(pat, Slice(seq, i, i + Len(pat)), rsa)
             THEN Append(matches, i) ELSE matches)

retrograde(pat, seq, rsa) ==
    IF Len(pat) = 0 THEN <<>> ELSE retrograde_loop(pat, seq, rsa, 0, <<>>)

(***************************************************************************)
(* inversion                                                               *)
(***************************************************************************)
\* a plausible slip of sign: expected = axis + (v - axis), which is no mirror
inversion_segment_not_mirrored(pat, segment, axis, rsa) ==
    IF _default_primary(At(segment, 0)) /= axis THEN FALSE
    ELSE IF rsa /\ ~aux_all_equal(segment, pat) THEN FALSE
    ELSE \A j \in Range0(Len(pat)) :
            LET v == _default_primary(At(pat, j))
                expected == axis + (v - axis)
            IN  _default_primary(At(segment, j)) = expected

\* whether the window is appended to matches
inversion_segment(pat, segment, axis, rsa) ==
    IF _default_primary(At(segment, 0)) /= axis THEN FALSE
    ELSE IF rsa /\ ~aux_all_equal(segment, pat) THEN FALSE
    ELSE \A j \in Range0(Len(pat)) :
            LET v == _default_primary(At(pat, j))
                expected == axis - (v - axis)
            IN  _default_primary(At(segment, j)) = expected

RECURSIVE inversion_loop(_, _, _, _, _, _)
inversion_loop(pat, seq, axis, rsa, i, matches) ==
    IF i >= Len(seq) - Len(pat) + 1 THEN matches
    ELSE inversion_loop(pat, seq, axis, rsa, i + 1,
             IF inversion_segment(pat, Slice(seq, i, i + Len(pat)), axis, rsa)
             THEN Append(matches, i) ELSE matches)

inversion(pat, seq, rsa) ==
    IF Len(pat) = 0 THEN <<>>
    ELSE inversion_loop(pat, seq, _default_primary(At(pat, 0)), rsa, 0, <<>>)

(***************************************************************************)
(* local_aux_changes, local_value_changes                                  *)
(***************************************************************************)
\* max_changes = max(1, L // 4) when it is None
default_max_changes(pat, mc) ==
    IF IsNone(mc) THEN Max(1, Len(pat) \div 4) ELSE IntOf(mc)

\* all(primary_fn(segment[j]) == primary_fn(pattern[j]) for j in range(L))
primary_all_equal(segment, pat) ==
    \A j \in Range0(Len(pat)) :
        _default_primary(At(segment, j)) = _default_primary(At(pat, j))

\* the list comprehension over j that builds `changed`
RECURSIVE changed_aux(_, _, _)
changed_aux(pat, segment, j) ==
    IF j >= Len(pat) THEN <<>>
    ELSE (IF _default_aux(At(segment, j)) /= _default_aux(At(pat, j))
          THEN <<[index |-> j, new_aux |-> _default_aux(At(segment, j))]>>
          ELSE <<>>) \o changed_aux(pat, segment, j + 1)

RECURSIVE changed_value(_, _, _)
changed_value(pat, segment, j) ==
    IF j >= Len(pat) THEN <<>>
    ELSE (IF _default_primary(At(segment, j)) /= _default_primary(At(pat, j))
          THEN <<[index |-> j, new_value |-> _default_primary(At(segment, j))]>>
          ELSE <<>>) \o changed_value(pat, segment, j + 1)

\* a plausible slip: 0 <= len(changed), which also reports unchanged windows
changes_in_bounds_from_zero(changed, mc) ==
    0 <= Len(changed) /\ Len(changed) <= mc

\* 0 < len(changed) <= max_changes
changes_in_bounds(changed, mc) ==
    0 < Len(changed) /\ Len(changed) <= mc

\* body of the loop over i: the records this window appends to results
local_aux_changes_segment(pat, segment, i, mc) ==
    IF ~primary_all_equal(segment, pat) THEN <<>>
    ELSE LET changed == changed_aux(pat, segment, 0)
         IN  IF changes_in_bounds(changed, mc)
             THEN <<[position |-> i, changed |-> changed]>>
             ELSE <<>>

RECURSIVE local_aux_changes_loop(_, _, _, _, _)
local_aux_changes_loop(pat, seq, mc, i, results) ==
    IF i >= Len(seq) - Len(pat) + 1 THEN results
    ELSE local_aux_changes_loop(pat, seq, mc, i + 1,
             results \o local_aux_changes_segment(
                            pat, Slice(seq, i, i + Len(pat)), i, mc))

local_aux_changes(pat, seq, mc) ==
    IF Len(pat) = 0 THEN <<>>
    ELSE local_aux_changes_loop(pat, seq, default_max_changes(pat, mc), 0, <<>>)

local_value_changes_segment(pat, segment, i, mc, rsa) ==
    IF rsa /\ ~aux_all_equal(segment, pat) THEN <<>>
    ELSE LET changed == changed_value(pat, segment, 0)
         IN  IF changes_in_bounds(changed, mc)
             THEN <<[position |-> i, changed |-> changed]>>
             ELSE <<>>

RECURSIVE local_value_changes_loop(_, _, _, _, _, _)
local_value_changes_loop(pat, seq, mc, rsa, i, results) ==
    IF i >= Len(seq) - Len(pat) + 1 THEN results
    ELSE local_value_changes_loop(pat, seq, mc, rsa, i + 1,
             results \o local_value_changes_segment(
                            pat, Slice(seq, i, i + Len(pat)), i, mc, rsa))

local_value_changes(pat, seq, mc, rsa) ==
    IF Len(pat) = 0 THEN <<>>
    ELSE local_value_changes_loop(pat, seq, default_max_changes(pat, mc),
                                  rsa, 0, <<>>)

(***************************************************************************)
(* fragmentation                                                           *)
(***************************************************************************)
\* first while loop of _removed_positions_for_fragment: <<i, j, removed>>
RECURSIVE removed_match_loop(_, _, _, _, _)
removed_match_loop(pat, fragment, i, j, removed) ==
    IF i < Len(pat) /\ j < Len(fragment)
    THEN IF At(pat, i) = At(fragment, j)
         THEN removed_match_loop(pat, fragment, i + 1, j + 1, removed)
         ELSE removed_match_loop(pat, fragment, i + 1, j, Append(removed, i))
    ELSE <<i, j, removed>>

\* second while loop: the pattern suffix left over is removed too
RECURSIVE removed_rest_loop(_, _, _)
removed_rest_loop(pat, i, removed) ==
    IF i < Len(pat)
    THEN removed_rest_loop(pat, i + 1, Append(removed, i))
    ELSE removed

\* a plausible slip: the leftover pattern suffix is not recorded as removed
_removed_positions_without_rest(pat, fragment) ==
    LET m == removed_match_loop(pat, fragment, 0, 0, <<>>)
    IN  IF m[2] = Len(fragment) THEN Some(m[3]) ELSE Nothing

_removed_positions_for_fragment(pat, fragment) ==
    LET m == removed_match_loop(pat, fragment, 0, 0, <<>>)
        removed == removed_rest_loop(pat, m[1], m[3])
    IN  IF m[2] = Len(fragment) THEN Some(removed) ELSE Nothing

\* min_len = L - (L // 4) when it is None
default_min_len(pat, ml) ==
    IF IsNone(ml) THEN Len(pat) - (Len(pat) \div 4) ELSE IntOf(ml)

\* spans (s, s + L - 1) of the exact matches of the full pattern
exact_spans(pat, seq) ==
    {<<s, s + Len(pat) - 1>> : s \in
        {s \in Range0(Len(seq) - Len(pat) + 1) :
            Slice(seq, s, s + Len(pat)) = pat}}

inside_exact_span(spans, start, end) ==
    \E ab \in spans : ab[1] <= start /\ end <= ab[2]

\* body of the loop over start: best_by_pos after this candidate
fragmentation_candidate(pat, seq, spans, frag_len, start, best_by_pos) ==
    LET end == start + frag_len - 1
    IN  IF inside_exact_span(spans, start, end) THEN best_by_pos
        ELSE LET fragment == Slice(seq, start, start + frag_len)
                 removed == _removed_positions_for_fragment(pat, fragment)
             IN  IF IsNone(removed) THEN best_by_pos
                 ELSE IF start \notin DOMAIN best_by_pos
                         \/ Len(ListOf(removed)) < Len(best_by_pos[start])
                      THEN [q \in DOMAIN best_by_pos \cup {start} |->
                               IF q = start THEN ListOf(removed)
                               ELSE best_by_pos[q]]
                      ELSE best_by_pos

\* the two nested loops: frag_len in range(min_len, L),
\* start in range(N - frag_len + 1)
RECURSIVE fragmentation_scan(_, _, _, _, _, _)
fragmentation_scan(pat, seq, spans, frag_len, start, best_by_pos) ==
    IF frag_len >= Len(pat) THEN best_by_pos
    ELSE IF start >= Len(seq) - frag_len + 1
         THEN fragmentation_scan(pat, seq, spans, frag_len + 1, 0, best_by_pos)
         ELSE fragmentation_scan(pat, seq, spans, frag_len, start + 1,
                  fragmentation_candidate(pat, seq, spans, frag_len, start,
                                          best_by_pos))

\* sorted(best_by_pos.items()) as a list of records, ascending by position
RECURSIVE sorted_items(_, _, _)
sorted_items(best_by_pos, pos, last) ==
    IF pos > last THEN <<>>
    ELSE (IF pos \in DOMAIN best_by_pos
          THEN <<[position |-> pos, removed_indices |-> best_by_pos[pos]]>>
          ELSE <<>>) \o sorted_items(best_by_pos, pos + 1, last)

\* a plausible slip: start >= last_end lets a match begin on the last index
\* of the match kept before it
starts_after_or_on(start, last_end) == start >= last_end

\* start > last_end
starts_after(start, last_end) == start > last_end

\* the overlap filter: keep earliest non-overlapping matches
RECURSIVE remove_overlaps(_, _, _, _, _)
remove_overlaps(pat, results, k, last_end, filtered) ==
    IF k > Len(results) THEN filtered
    ELSE LET r == results[k]
             start == r.position
             frag_len == Len(pat) - Len(r.removed_indices)
             end == start + frag_len - 1
         IN  IF starts_after(start, last_end)
             THEN remove_overlaps(pat, results, k + 1, end, Append(filtered, r))
             ELSE remove_overlaps(pat, results, k + 1, last_end, filtered)

\* best_by_pos after the scan, as sorted records (the list `results`)
fragmentation_results(pat, seq, ml) ==
    sorted_items(
        fragmentation_scan(pat, seq, exact_spans(pat, seq),
                           default_min_len(pat, ml), 0, <<>>),
        0, Len(seq))

fragmentation(pat, seq, ml) ==
    IF Len(pat) = 0 \/ Len(seq) = 0 THEN <<>>
    ELSE remove_overlaps(pat, fragmentation_results(pat, seq, ml), 1, -1, <<>>)

(***************************************************************************)
(* extension                                                               *)
(***************************************************************************)
\* first while loop of _added_positions_for_fragment: <<i, j, added>>
RECURSIVE added_match_loop(_, _, _, _, _)
added_match_loop(pat, fragment, i, j, added) ==
    IF j < Len(fragment) /\ i < Len(pat)
    THEN IF At(fragment, j) = At(pat, i)
         THEN added_match_loop(pat, fragment, i + 1, j + 1, added)
         ELSE added_match_loop(pat, fragment, i, j + 1,
                  Append(added, [index |-> j, value |-> At(fragment, j)]))
    ELSE <<i, j, added>>

\* second while loop: fragment items after the pattern is fully matched
RECURSIVE added_rest_loop(_, _, _)
added_rest_loop(fragment, j, added) ==
    IF j < Len(fragment)
    THEN added_rest_loop(fragment, j + 1,
             Append(added, [index |-> j, value |-> At(fragment, j)]))
    ELSE added

\* a plausible slip: the test that the whole pattern was matched is left out
_added_positions_pattern_unfinished(pat, fragment) ==
    LET m == added_match_loop(pat, fragment, 0, 0, <<>>)
        added == added_rest_loop(fragment, m[2], m[3])
    IN  IF added = <<>> THEN Nothing
        ELSE LET first == added[1].index
                 last == added[Len(added)].index
             IN  IF first = 0 \/ last = Len(fragment) - 1 THEN Nothing
                 ELSE Some(added)

_added_positions_for_fragment(pat, fragment) ==
    LET m == added_match_loop(pat, fragment, 0, 0, <<>>)
        added == added_rest_loop(fragment, m[2], m[3])
    IN  IF m[1] /= Len(pat) \/ added = <<>> THEN Nothing
        ELSE LET first == added[1].index
                 last == added[Len(added)].index
             IN  IF first = 0 \/ last = Len(fragment) - 1 THEN Nothing
                 ELSE Some(added)

\* max_extra = max(1, L // 4) when it is None
default_max_extra(pat, me) ==
    IF IsNone(me) THEN Max(1, Len(pat) \div 4) ELSE IntOf(me)

\* a plausible slip: a window that does not qualify ends the scan (break
\* where the code has continue)
RECURSIVE extension_best_stops(_, _, _, _, _, _)
extension_best_stops(pat, seq, me, start, frag_len, best) ==
    IF frag_len >= Len(pat) + me + 1 THEN best
    ELSE LET end == start + frag_len
         IN  IF end > Len(seq) THEN best
             ELSE LET added == _added_positions_for_fragment(
                                   pat, Slice(seq, start, end))
                  IN  IF IsNone(added) THEN best
                      ELSE extension_best_stops(pat, seq, me, start,
                               frag_len + 1,
                               Some([position |-> start,
                                     added |-> ListOf(added)]))

\* the loop over frag_len in range(L + 1, L + max_extra + 1): the value of
\* `best` when the loop ends (by exhaustion or by break)
RECURSIVE extension_best(_, _, _, _, _, _)
extension_best(pat, seq, me, start, frag_len, best) ==
    IF frag_len >= Len(pat) + me + 1 THEN best
    ELSE LET end == start + frag_len
         IN  IF end > Len(seq) THEN best
             ELSE LET added == _added_positions_for_fragment(
                                   pat, Slice(seq, start, end))
                  IN  IF IsNone(added)
                      THEN extension_best(pat, seq, me, start, frag_len + 1,
                                          best)
                      ELSE extension_best(pat, seq, me, start, frag_len + 1,
                               Some([position |-> start,
                                     added |-> ListOf(added)]))

\* the loop over start in range(N - L + 1)
RECURSIVE extension_loop(_, _, _, _, _)
extension_loop(pat, seq, me, start, results) ==
    IF start >= Len(seq) - Len(pat) + 1 THEN results
    ELSE LET best == extension_best(pat, seq, me, start, Len(pat) + 1, Nothing)
         IN  extension_loop(pat, seq, me, start + 1,
                 IF ~IsNone(best) THEN Append(results, best[1]) ELSE results)

extension(pat, seq, me) ==
    IF Len(pat) = 0 \/ Len(seq) = 0 THEN <<>>
    ELSE extension_loop(pat, seq, default_max_extra(pat, me), 0, <<>>)

(***************************************************************************)
(* State machine: Init draws the inputs, one action per detector.          *)
(***************************************************************************)
InitInputs ==
    /\ pattern \in SeqsUpTo(Items, MaxPatLen)
    /\ sequence \in SeqsUpTo(Items, MaxSeqLen)
    /\ require_same_aux = TRUE
    /\ max_changes = Nothing
    /\ min_len = Nothing
    /\ max_extra = Nothing
    /\ op = "input"
    /\ result = <<>>

Init == InitInputs

\* Items of the perturbation detectors: two scalars that differ in primary
\* value only, and a tuple that differs from a scalar in aux value only.
LocalItems == {[scalar |-> 1], [scalar |-> 2], [tuple |-> <<1, "a">>]}

\* A pattern long enough for the default max_changes, max(1, L // 4), to
\* exceed 1: one pattern of LongPatLen equal scalars against every window of
\* that length.
LongPatLen == 8

InitLocal ==
    /\ \/ /\ pattern \in SeqsUpTo(LocalItems, MaxPatLen)
          /\ sequence \in SeqsUpTo(LocalItems, MaxSeqLen)
       \/ /\ pattern = [k \in 1..LongPatLen |-> [scalar |-> 1]]
          /\ sequence \in [1..LongPatLen -> LocalItems]
    /\ require_same_aux = TRUE
    /\ max_changes = Nothing
    /\ min_len = Nothing
    /\ max_extra = Nothing
    /\ op = "input"
    /\ result = <<>>

\* Items of the edit-based detectors, which compare whole items only: a scalar
\* and a tuple with the same primary value.
EditItems == {[scalar |-> 1], [tuple |-> <<1, "a">>]}
MaxEditPatLen == 4
MaxEditSeqLen == 6
MaxExtra == 2

InitEdit ==
    /\ pattern \in SeqsUpTo(EditItems, MaxEditPatLen)
    /\ sequence \in SeqsUpTo(EditItems, MaxEditSeqLen)
    /\ require_same_aux = TRUE
    /\ max_changes = Nothing
    /\ min_len = Nothing
    /\ max_extra = Nothing
    /\ op = "input"
    /\ result = <<>>

Repetition ==
    /\ op = "input"
    /\ op' = "repetition"
    /\ result' = repetition(pattern, sequence)
    /\ UNCHANGED <<pattern, sequence, require_same_aux, max_changes,
                   min_len, max_extra>>

Transposition ==
    /\ op = "input"
    /\ \E rsa \in BOOLEAN :
          /\ require_same_aux' = rsa
          /\ result' = transposition(pattern, sequence, rsa)
    /\ op' = "transposition"
    /\ UNCHANGED <<pattern, sequence, max_changes, min_len, max_extra>>

Retrograde ==
    /\ op = "input"
    /\ \E rsa \in BOOLEAN :
          /\ require_same_aux' = rsa
          /\ result' = retrograde(pattern, sequence, rsa)
    /\ op' = "retrograde"
    /\ UNCHANGED <<pattern, sequence, max_changes, min_len, max_extra>>

Inversion ==
    /\ op = "input"
    /\ \E rsa \in BOOLEAN :
          /\ require_same_aux' = rsa
          /\ result' = inversion(pattern, sequence, rsa)
    /\ op' = "inversion"
    /\ UNCHANGED <<pattern, sequence, max_changes, min_len, max_extra>>

Next == Repetition \/ Transposition \/ Retrograde \/ Inversion

Spec == Init /\ [][Next]_vars

\* the values given for an Optional[int] parameter: None or 0..n
OptInts(n) == {Nothing} \cup {<<k>> : k \in 0..n}

LocalAuxChanges ==
    /\ op = "input"
    /\ \E mc \in OptInts(MaxPatLen) :
          /\ max_changes' = mc
          /\ result' = local_aux_changes(pattern, sequence, mc)
    /\ op' = "local_aux_changes"
    /\ UNCHANGED <<pattern, sequence, require_same_aux, min_len, max_extra>>

LocalValueChanges ==
    /\ op = "input"
    /\ \E mc \in OptInts(MaxPatLen), rsa \in BOOLEAN :
          /\ max_changes' = mc
          /\ require_same_aux' = rsa
          /\ result' = local_value_changes(pattern, sequence, mc, rsa)
    /\ op' = "local_value_changes"
    /\ UNCHANGED <<pattern, sequence, min_len, max_extra>>

NextLocal == LocalAuxChanges \/ LocalValueChanges

SpecLocal == InitLocal /\ [][NextLocal]_vars

Fragmentation ==
    /\ op = "input"
    /\ \E ml \in OptInts(MaxEditPatLen) :
          /\ min_len' = ml
          /\ result' = fragmentation(pattern, sequence, ml)
    /\ op' = "fragmentation"
    /\ UNCHANGED <<pattern, sequence, require_same_aux, max_changes, max_extra>>

NextFrag == Fragmentation

SpecFrag == InitEdit /\ [][NextFrag]_vars

Extension ==
    /\ op = "input"
    /\ \E me \in OptInts(MaxExtra) :
          /\ max_extra' = me
          /\ result' = extension(pattern, sequence, me)
    /\ op' = "extension"
    /\ UNCHANGED <<pattern, sequence, require_same_aux, max_changes, min_len>>

NextExt == Extension

SpecExt == InitEdit /\ [][NextExt]_vars

(***************************************************************************)
(* Vocabulary of the properties.                                           *)
(***************************************************************************)
L == Len(pattern)
N == Len(sequence)

StrictlyAscending(s) == \A a, b \in 1..Len(s) : a < b => s[a] < s[b]
Elems(s) == {s[k] : k \in 1..Len(s)}

\* C1: repetition returns, strictly ascending and without duplicates, exactly
\* the indices i in [0, N-L] whose window equals the pattern item for item;
\* an empty pattern gives the empty list.
RepetitionStarts ==
    {i \in 0..(N - L) : \A j \in Range0(L) : At(sequence, i + j) = At(pattern, j)}

C1_RepetitionExact ==
    op = "repetition" =>
        /\ StrictlyAscending(result)
        /\ Elems(result) = (IF L = 0 THEN {} ELSE RepetitionStarts)

C1_Witness ==
    /\ op = "repetition"
    /\ Len(result) >= 2
    /\ \E j \in Range0(L) : IsTuple(At(pattern, j))
    /\ \E i \in 0..(N - L) : i \notin Elems(result)

\* C2: for a non-empty pattern, transposition returns one record
\* {position: i, offset: d} for exactly the starts i in [0, N-L] where the aux
\* values agree with the pattern's (when require_same_aux), d is the
\* difference of the first primary values and is not 0, and every primary
\* difference of the window equals d; no reported offset is 0.
Value(x) == _default_primary(x)
Aux(x) == _default_aux(x)

TranspositionOffset(i) == Value(At(sequence, i)) - Value(At(pattern, 0))

TranspositionStarts ==
    {i \in 0..(N - L) :
        /\ require_same_aux =>
              \A j \in Range0(L) : Aux(At(sequence, i + j)) = Aux(At(pattern, j))
        /\ TranspositionOffset(i) /= 0
        /\ \A j \in Range0(L) :
              Value(At(sequence, i + j)) - Value(At(pattern, j))
                  = TranspositionOffset(i)}

C2_TranspositionExact ==
    (op = "transposition" /\ L > 0) =>
        /\ Elems(result) =
              {[position |-> i, offset |-> TranspositionOffset(i)] :
                  i \in TranspositionStarts}
        /\ Len(result) = Cardinality(TranspositionStarts)
        /\ \A k \in 1..Len(result) : result[k].offset /= 0

\* a reported transposition of a two-item pattern with two different values,
\* aux required, next to a window that equals the pattern and is not reported
C2_Witness ==
    /\ op = "transposition"
    /\ require_same_aux
    /\ L = 2
    /\ Value(At(pattern, 0)) /= Value(At(pattern, 1))
    /\ Len(result) = 1
    /\ \E i \in 0..(N - L) : Slice(sequence, i, i + L) = pattern

\* C3: for a non-empty pattern, retrograde reports start i (once, ascending)
\* iff every window item j has the primary value of pattern item L-1-j and,
\* when require_same_aux, its aux value too.
RetrogradeStarts ==
    {i \in 0..(N - L) :
        \A j \in Range0(L) :
            /\ Value(At(sequence, i + j)) = Value(At(pattern, L - 1 - j))
            /\ require_same_aux =>
                  Aux(At(sequence, i + j)) = Aux(At(pattern, L - 1 - j))}

C3_RetrogradeExact ==
    (op = "retrograde" /\ L > 0) =>
        /\ StrictlyAscending(result)
        /\ Elems(result) = RetrogradeStarts

\* a reported reversal of a pattern that is not a palindrome and holds a tuple
C3_Witness ==
    /\ op = "retrograde"
    /\ require_same_aux
    /\ L = 2
    /\ At(pattern, 0) /= At(pattern, 1)
    /\ \E j \in Range0(L) : IsTuple(At(pattern, j))
    /\ result /= <<>>
    /\ \E i \in 0..(N - L) : i \notin Elems(result)

\* C4: for a non-empty pattern, with axis the primary value of pattern[0],
\* inversion reports start i iff every window value j equals
\* axis - (value(pattern[j]) - axis) and, when require_same_aux, the aux values
\* agree with the pattern's in pattern order.
Axis == Value(At(pattern, 0))

InversionStarts ==
    {i \in 0..(N - L) :
        /\ \A j \in Range0(L) :
              Value(At(sequence, i + j)) = Axis - (Value(At(pattern, j)) - Axis)
        /\ require_same_aux =>
              \A j \in Range0(L) : Aux(At(sequence, i + j)) = Aux(At(pattern, j))}

C4_InversionExact ==
    (op = "inversion" /\ L > 0) =>
        /\ Elems(result) = InversionStarts
        /\ StrictlyAscending(result)
        /\ \A k \in 1..Len(result) : Value(At(sequence, result[k])) = Axis

\* a reported mirror image of a pattern whose values are not all the axis
C4_Witness ==
    /\ op = "inversion"
    /\ L = 2
    /\ Value(At(pattern, 1)) /= Axis
    /\ result /= <<>>
    /\ \E i \in 0..(N - L) : i \notin Elems(result)

\* C7: a window at start i in [0, N-L] is reported by a perturbation detector
\* iff the fixed component matches the pattern at every index (primary for
\* local_aux_changes; aux for local_value_changes when require_same_aux) and
\* the number of indices whose varying component differs is at least 1 and at
\* most max_changes (max(1, L div 4) when not given); `changed` holds exactly
\* the differing indices, ascending, each with the window's new value.
EffectiveMaxChanges ==
    IF max_changes = Nothing
    THEN (IF L \div 4 >= 1 THEN L \div 4 ELSE 1)
    ELSE max_changes[1]

AuxDiff(i) ==
    {j \in Range0(L) : Aux(At(sequence, i + j)) /= Aux(At(pattern, j))}
ValueDiff(i) ==
    {j \in Range0(L) : Value(At(sequence, i + j)) /= Value(At(pattern, j))}

AuxChangeStarts ==
    {i \in 0..(N - L) :
        /\ ValueDiff(i) = {}
        /\ Cardinality(AuxDiff(i)) >= 1
        /\ Cardinality(AuxDiff(i)) <= EffectiveMaxChanges}

ValueChangeStarts ==
    {i \in 0..(N - L) :
        /\ require_same_aux => AuxDiff(i) = {}
        /\ Cardinality(ValueDiff(i)) >= 1
        /\ Cardinality(ValueDiff(i)) <= EffectiveMaxChanges}

Positions(s) == {s[k].position : k \in 1..Len(s)}
Indexes(s) == {s[k].index : k \in 1..Len(s)}
IndexList(s) == [k \in 1..Len(s) |-> s[k].index]
PositionList(s) == [k \in 1..Len(s) |-> s[k].position]

C7_LocalChangesExact ==
    /\ op = "local_aux_changes" =>
          /\ Positions(result) = AuxChangeStarts
          /\ Len(result) = Cardinality(AuxChangeStarts)
          /\ \A k \in 1..Len(result) :
                LET r == result[k]
                IN  /\ StrictlyAscending(IndexList(r.changed))
                    /\ Indexes(r.changed) = AuxDiff(r.position)
                    /\ \A c \in Elems(r.changed) :
                          c.new_aux = Aux(At(sequence, r.position + c.index))
    /\ op = "local_value_changes" =>
          /\ Positions(result) = ValueChangeStarts
          /\ Len(result) = Cardinality(ValueChangeStarts)
          /\ \A k \in 1..Len(result) :
                LET r == result[k]
                IN  /\ StrictlyAscending(IndexList(r.changed))
                    /\ Indexes(r.changed) = ValueDiff(r.position)
                    /\ \A c \in Elems(r.changed) :
                          c.new_value = Value(At(sequence, r.position + c.index))

\* with max_changes not given and a pattern of at least 8 items,
\* local_value_changes reports a window with two changed values
C7_Witness ==
    /\ op = "local_value_changes"
    /\ max_changes = Nothing
    /\ require_same_aux
    /\ L \div 4 >= 2
    /\ Len(result) = 1
    /\ Len(result[1].changed) = 2

\* C5: for min_len >= 1, every record {position, removed_indices} returned by
\* fragmentation has a non-empty, strictly ascending removed_indices list of
\* indices in [0, L-1], and deleting exactly those indices from the pattern
\* gives, item for item, sequence[position : position + L - len(removed)].
MinLenGiven == min_len = Nothing \/ min_len[1] >= 1

\* s without the items at the 0-based indices in idx
RECURSIVE DeleteFrom(_, _, _)
DeleteFrom(s, idx, k) ==
    IF k >= Len(s) THEN <<>>
    ELSE (IF k \in idx THEN <<>> ELSE <<At(s, k)>>) \o DeleteFrom(s, idx, k + 1)

Delete(s, idx) == DeleteFrom(s, idx, 0)

C5_FragmentationRoundTrip ==
    (op = "fragmentation" /\ MinLenGiven) =>
        \A k \in 1..Len(result) :
            LET r == result[k]
                removed == r.removed_indices
                kept == L - Len(removed)
            IN  /\ removed /= <<>>
                /\ StrictlyAscending(removed)
                /\ Elems(removed) \subseteq Range0(L)
                /\ r.position + kept <= N
                /\ Delete(pattern, Elems(removed))
                       = SubSeq(sequence, r.position + 1, r.position + kept)

\* a reported fragment whose removed indices include an inner index and the
\* last index of the pattern
C5_Witness ==
    /\ op = "fragmentation"
    /\ MinLenGiven
    /\ \E k \in 1..Len(result) :
          LET removed == result[k].removed_indices
          IN  /\ Len(removed) = 2
              /\ L - 1 \in Elems(removed)
              /\ \E x \in Elems(removed) : 0 < x /\ x < L - 1

\* C8: for min_len >= 1 the records of fragmentation are in strictly ascending
\* position order with pairwise disjoint windows
\* [position, position + L - len(removed_indices) - 1]; a per-start best
\* candidate is kept only if it starts after the end of the last kept one, so
\* a dropped candidate overlaps a kept one that starts earlier, and the
\* candidate with the smallest start is always returned.
Candidates == fragmentation_results(pattern, sequence, min_len)
EndOf(r) == r.position + (L - Len(r.removed_indices)) - 1

C8_FragmentationNoOverlap ==
    (op = "fragmentation" /\ MinLenGiven) =>
        /\ \A a, b \in 1..Len(result) :
              a < b => /\ result[a].position < result[b].position
                       /\ EndOf(result[a]) < result[b].position
        /\ Elems(result) \subseteq Elems(Candidates)
        /\ \A c \in Elems(Candidates) \ Elems(result) :
              \E r \in Elems(result) :
                  r.position < c.position /\ c.position <= EndOf(r)
        /\ Candidates /= <<>> => (result /= <<>> /\ result[1] = Candidates[1])

\* two matches are returned and a candidate between them is suppressed
C8_Witness ==
    /\ op = "fragmentation"
    /\ MinLenGiven
    /\ Len(result) >= 2
    /\ \E c \in Elems(Candidates) \ Elems(result) :
          result[1].position < c.position /\ c.position < result[2].position

\* C6: for max_extra >= 1, every record {position, added} returned by
\* extension has between 1 and max_extra added entries, each entry's value is
\* the window item at its index, and deleting the added indices from the
\* window sequence[position : position + L + len(added)] gives the pattern.
EffectiveMaxExtra ==
    IF max_extra = Nothing
    THEN (IF L \div 4 >= 1 THEN L \div 4 ELSE 1)
    ELSE max_extra[1]

C6_ExtensionRoundTrip ==
    (op = "extension" /\ EffectiveMaxExtra >= 1) =>
        \A k \in 1..Len(result) :
            LET r == result[k]
                n == Len(r.added)
                window == SubSeq(sequence, r.position + 1, r.position + L + n)
            IN  /\ 1 <= n
                /\ n <= EffectiveMaxExtra
                /\ r.position + L + n <= N
                /\ \A e \in Elems(r.added) :
                      /\ e.index \in Range0(L + n)
                      /\ e.value = At(window, e.index)
                /\ Delete(window, Indexes(r.added)) = pattern

\* a reported extension with two added items that are not adjacent
C6_Witness ==
    /\ op = "extension"
    /\ \E k \in 1..Len(result) :
          LET added == result[k].added
          IN  /\ Len(added) = 2
              /\ added[2].index > added[1].index + 1

\* C9: extension returns at most one record per start, ascending by
\* position; the record of a start is the one of the longest window length in
\* [L+1, L+max_extra] within the sequence that qualifies at that start, and
\* every start with a qualifying window length has a record.
Qualifies(start, frag_len) ==
    /\ frag_len \in (L + 1)..(L + EffectiveMaxExtra)
    /\ start + frag_len <= N
    /\ ~IsNone(_added_positions_for_fragment(
                   pattern, Slice(sequence, start, start + frag_len)))

QualifyingLens(start) ==
    {frag_len \in (L + 1)..(L + EffectiveMaxExtra) : Qualifies(start, frag_len)}

Longest(lens) == CHOOSE m \in lens : \A x \in lens : x <= m

C9_ExtensionLongestPerStart ==
    op = "extension" =>
        /\ StrictlyAscending(PositionList(result))
        /\ Positions(result) = {start \in Range0(N) : QualifyingLens(start) /= {}}
        /\ \A k \in 1..Len(result) :
              LET r == result[k]
                  frag_len == Longest(QualifyingLens(r.position))
              IN  /\ Len(r.added) = frag_len - L
                  /\ r.added = ListOf(_added_positions_for_fragment(
                         pattern,
                         Slice(sequence, r.position, r.position + frag_len)))

\* a record that comes from the window length L+2 after the length L+1 did
\* not qualify, next to a start with no record
C9_Witness ==
    /\ op = "extension"
    /\ \E k \in 1..Len(result) :
          /\ Len(result[k].added) = 2
          /\ ~Qualifies(result[k].position, L + 1)
    /\ \E start \in 0..(N - L - 1) : start \notin Positions(result)

\* C10: extension detects every extension: if for some start p and
\* 1 <= k <= max_extra the window sequence[p : p+L+k] contains the pattern as
\* an ordered subsequence with the k extra items strictly inside (neither
\* window index 0 nor the last window index is extra), a record with
\* position p is returned.
InternalExtension(p, k) ==
    /\ p + L + k <= N
    /\ LET window == Slice(sequence, p, p + L + k)
       IN  \E extra \in SUBSET (1..(L + k - 2)) :
              /\ Cardinality(extra) = k
              /\ Delete(window, extra) = pattern

C10_ExtensionDetectsAll ==
    op = "extension" =>
        \A p \in Range0(N) : \A k \in 1..EffectiveMaxExtra :
            InternalExtension(p, k) => p \in Positions(result)
=============================================================================
